---- MODULE Spec2Model ----
(***************************************************************************)
(* A model of SkewerModel (src/src/SkewerModel.ts): the in-memory data     *)
(* cache and index cache, the schema validator, the find engine, the       *)
(* transaction gate, and the two persisted files with the asynchronous     *)
(* reads and writes that saveFile / loadFile / initialize start.           *)
(***************************************************************************)
EXTENDS Integers, Sequences, FiniteSets, TLC

(***************************************************************************)
(* Bounds of the model.                                                    *)
(***************************************************************************)
\* records the data cache may hold at once (inserts are disabled beyond it)
MaxRecords == 2
\* ids randomUUID() may hand out (u1, u2, ...)
NumUuids == 1
\* ids an index list may hold (an insert that would exceed it is disabled)
MaxList == 2
\* records of one insertMany batch
MaxBatch == 2
\* un-awaited background tasks (the flush of commitTransaction, the reload
\* of abortTransaction) in flight at once
MaxBackground == 1
\* the clock behind new Date() runs from 0 to MaxClock
MaxClock == 1
\* calls the caller makes in one run
MaxCalls == 5
\* calls of one run of the caller that passes values of every type
MaxTypedCalls == 3
\* calls of one run of the caller that passes engine-owned fields
MaxIdCalls == 4
\* calls of one run of the caller that starts on files left by an earlier run
MaxLoadCalls == 3
\* calls of one run of the caller that uses the city, count and note fields
MaxFindCalls == 4
\* calls of one run of the caller that does not await every call
MaxOverlapCalls == 3
\* calls of one run of the caller whose pending writes are scheduled fairly
MaxLiveCalls == 4
\* un-awaited background tasks in flight at once in such a run
MaxLiveBackground == 2

(***************************************************************************)
(* JavaScript values.  A value carries its runtime type; a field that is   *)
(* absent from an object is absent from the function's domain, and reads   *)
(* as Undef.                                                               *)
(***************************************************************************)
Str(s) == [t |-> "String", n |-> 0, s |-> s]
Num(n) == [t |-> "Number", n |-> n, s |-> ""]
Undef == [t |-> "Undefined", n |-> 0, s |-> ""]
\* true / false
Bool(b) == [t |-> "Boolean", n |-> IF b THEN 1 ELSE 0, s |-> ""]
\* an array; s is what its toString() gives ("" for [])
Arr(s) == [t |-> "Array", n |-> 0, s |-> s]

NumText == <<"0", "1", "2", "3", "4", "5">>

\* String(v): how a value reads when it is used as an object property key
ToKey(v) ==
  IF v.t \in {"String", "Array"} THEN v.s
  ELSE IF v.t = "Number" THEN NumText[v.n + 1]
  ELSE IF v.t = "Boolean" THEN (IF v.n = 1 THEN "true" ELSE "false")
  ELSE "undefined"

\* JavaScript truthiness of a value
Truthy(v) ==
  /\ v.t # "Undefined"
  /\ ~(v.t = "String" /\ v.s = "")
  /\ ~(v.t = "Number" /\ v.n = 0)
  /\ ~(v.t = "Boolean" /\ v.n = 0)

\* v.toString() is the empty string
ToStringEmpty(v) == v.t \in {"String", "Array"} /\ v.s = ""

FieldVal(r, f) == IF f \in DOMAIN r THEN r[f] ELSE Undef

TimeText == <<"t0", "t1", "t2", "t3", "t4">>
\* new Date().toISOString() at clock value n
Stamp(n) == Str(TimeText[n + 1])

UuidText == <<"u1", "u2", "u3", "u4">>
Uuids == {UuidText[i] : i \in 1..NumUuids}
CustomIds == {"c1"}
Ids == Uuids \cup CustomIds

(***************************************************************************)
(* The schema of the collection: a unique (hence indexed) optional String  *)
(* field, a required Number field that is not indexed, an optional String  *)
(* field with an enum constraint, an optional String field with an index,  *)
(* and an optional Number field named count.                               *)
(***************************************************************************)
SchemaFields == <<"name", "age", "keyword", "city", "count">>
Schema ==
  [name |-> [type |-> "String", required |-> FALSE, unique |-> TRUE,
             index |-> FALSE, hasEnum |-> FALSE, enum |-> {}],
   age  |-> [type |-> "Number", required |-> TRUE, unique |-> FALSE,
             index |-> FALSE, hasEnum |-> FALSE, enum |-> {}],
   keyword |-> [type |-> "String", required |-> FALSE, unique |-> FALSE,
                index |-> FALSE, hasEnum |-> TRUE, enum |-> {Str("a"), Str("b")}],
   city |-> [type |-> "String", required |-> FALSE, unique |-> FALSE,
             index |-> TRUE, hasEnum |-> FALSE, enum |-> {}],
   count |-> [type |-> "Number", required |-> FALSE, unique |-> FALSE,
              index |-> FALSE, hasEnum |-> FALSE, enum |-> {}]]

\* CONSTANTS.ignoredDBRecordKeys
IgnoredDBRecordKeys == {"id", "createdAt", "updatedAt"}

\* the order Object.keys() lists the fields of the records of this model;
\* note is a field the schema does not declare
KeyOrder ==
  <<"name", "age", "keyword", "city", "note", "id", "createdAt", "updatedAt", "count">>

booleanIsTrue(b) == b = TRUE

IsIndexed(f) == Schema[f].unique \/ Schema[f].index

IndexedFields == {f \in DOMAIN Schema : IsIndexed(f)}

(***************************************************************************)
(* Objects used as maps.  The data cache (and find's tempDataCache) is a   *)
(* sequence of entries [k, r] in key insertion order; the index cache is a *)
(* function field -> (key -> list of ids).                                 *)
(***************************************************************************)
Keys(dc) == {dc[i].k : i \in 1..Len(dc)}
DcHas(dc, id) == \E i \in 1..Len(dc) : dc[i].k = id
DcGet(dc, id) == dc[CHOOSE i \in 1..Len(dc) : dc[i].k = id].r
\* obj[id] = rec: an existing key keeps its place, a new key goes last
DcPut(dc, id, rec) ==
  IF DcHas(dc, id)
  THEN LET i == CHOOSE j \in 1..Len(dc) : dc[j].k = id
       IN SubSeq(dc, 1, i - 1) \o <<[k |-> id, r |-> rec]>> \o SubSeq(dc, i + 1, Len(dc))
  ELSE Append(dc, [k |-> id, r |-> rec])
\* delete obj[id]
DcDel(dc, id) == SelectSeq(dc, LAMBDA e : e.k # id)
\* Object.values(obj)
DcValues(dc) == [i \in DOMAIN dc |-> dc[i].r]

EmptyIndex == [f \in {} |-> [k \in {} |-> <<>>]]
SetField(ic, f, m) == [x \in DOMAIN ic \cup {f} |-> IF x = f THEN m ELSE ic[x]]
SetKey(m, k, list) == [x \in DOMAIN m \cup {k} |-> IF x = k THEN list ELSE m[x]]
OnlyKey(k) == [x \in {k} |-> <<>>]
Without(list, id) == SelectSeq(list, LAMBDA x : x # id)

(***************************************************************************)
(* find (SkewerModel.ts 264-301).                                          *)
(***************************************************************************)
\* record.count || 0
CountOf(r) ==
  IF "count" \in DOMAIN r /\ Truthy(r["count"]) THEN r["count"].n ELSE 0

\* { ...record, count: (record.count || 0) + 1 }
WithCount(r) ==
  [x \in DOMAIN r \cup {"count"} |-> IF x = "count" THEN Num(CountOf(r) + 1) ELSE r[x]]

\* delete value.count
StripCount(r) == [x \in DOMAIN r \ {"count"} |-> r[x]]

\* this.indexCache[key]?.[value] || []
IndexLookup(ic, key, value) ==
  IF key \in DOMAIN ic /\ ToKey(value) \in DOMAIN ic[key]
  THEN ic[key][ToKey(value)] ELSE <<>>

\* dbIds.forEach(...) of the index branch; first is counter === 1
RECURSIVE IndexPass(_, _, _, _)
IndexPass(dbIds, first, dc, temp) ==
  IF dbIds = <<>> THEN temp
  ELSE LET dbId == Head(dbIds)
           src == IF first THEN dc ELSE temp
       IN IndexPass(Tail(dbIds), first, dc,
                    IF DcHas(src, dbId)
                    THEN DcPut(temp, dbId, WithCount(DcGet(src, dbId)))
                    ELSE temp)

\* Object.values(...).forEach(...) of the scan branch
RECURSIVE ScanPass(_, _, _, _)
ScanPass(vals, key, value, temp) ==
  IF vals = <<>> THEN temp
  ELSE LET dcValue == Head(vals)
       IN ScanPass(Tail(vals), key, value,
                   IF FieldVal(dcValue, key) = value
                   THEN DcPut(temp, ToKey(FieldVal(dcValue, "id")), WithCount(dcValue))
                   ELSE temp)

\* tempDataCache.size === 0: tempDataCache is a plain object, so .size reads
\* the entry stored under the key "size" (a record) or undefined, never 0
TempSizeIsZero(temp) == IF DcHas(temp, "size") THEN FALSE ELSE FALSE

RECURSIVE FindLoop(_, _, _, _, _)
FindLoop(searchPArr, counter, dc, ic, temp) ==
  IF counter > Len(searchPArr) THEN temp
  ELSE LET key == searchPArr[counter].key
           value == searchPArr[counter].value
           first == counter = 1
           temp2 == IF IsIndexed(key)
                    THEN IndexPass(IndexLookup(ic, key, value), first, dc, temp)
                    ELSE ScanPass(DcValues(IF first THEN dc ELSE temp), key, value, temp)
       IN IF TempSizeIsZero(temp2) THEN temp2
          ELSE FindLoop(searchPArr, counter + 1, dc, ic, temp2)

\* find(searchParams) on caches dc, ic; searchPArr is Object.entries(searchParams)
find(searchPArr, dc, ic) ==
  LET temp == FindLoop(searchPArr, 1, dc, ic, <<>>)
      hits == SelectSeq(temp, LAMBDA e : e.r["count"] = Num(Len(searchPArr)))
  IN [i \in DOMAIN hits |-> StripCount(hits[i].r)]

(***************************************************************************)
(* validateSchema (SkewerModel.ts 82-106).                                 *)
(***************************************************************************)
\* the enum clause of validateSchema (SkewerModel.ts 92-100)
EnumViolation(d, v) == Truthy(v) /\ d.hasEnum /\ d.type = "String" /\ v \notin d.enum

FieldViolation(key, record, isUpdate, dc, ic) ==
  LET d == Schema[key]
      v == FieldVal(record, key)
  IN \/ d.required /\ (v.t = "Undefined" \/ ToStringEmpty(v))
     \/ Truthy(v) /\ ~ToStringEmpty(v) /\ v.t # d.type
     \/ EnumViolation(d, v)
     \/ /\ booleanIsTrue(d.unique)
        /\ Len(find(<<[key |-> key, value |-> v]>>, dc, ic)) > (IF isUpdate THEN 1 ELSE 0)

\* TRUE when validateSchema returns, FALSE when it throws SchemaValidationError
validateSchema(record, isUpdate, dc, ic) ==
  \A i \in DOMAIN SchemaFields : ~FieldViolation(SchemaFields[i], record, isUpdate, dc, ic)

(***************************************************************************)
(* Index maintenance (SkewerModel.ts 116-190).  Each returns the index     *)
(* cache it leaves and whether it threw a TypeError on the way.            *)
(***************************************************************************)
KeysOf(r) == SelectSeq(KeyOrder, LAMBDA f : f \in DOMAIN r)

\* an addToIndex that creates the list of a new value inside the field's map
AddKeyLazily(key, value, id, st) ==
  IF key \in IgnoredDBRecordKeys THEN st
  ELSE IF key \notin DOMAIN Schema THEN [st EXCEPT !.err = TRUE]
  ELSE IF ~IsIndexed(key) THEN st
  ELSE LET k == ToKey(value)
           m == IF key \notin DOMAIN st.ic THEN OnlyKey(k)
                ELSE IF k \notin DOMAIN st.ic[key] THEN SetKey(st.ic[key], k, <<>>)
                ELSE st.ic[key]
       IN [st EXCEPT !.ic = SetField(st.ic, key, SetKey(m, k, Append(m[k], id)))]

AddKey(key, value, id, st) ==
  IF key \in IgnoredDBRecordKeys THEN st
  ELSE IF key \notin DOMAIN Schema THEN [st EXCEPT !.err = TRUE]
  ELSE IF ~IsIndexed(key) THEN st
  ELSE LET k == ToKey(value)
           m == IF key \notin DOMAIN st.ic \/ k \notin DOMAIN st.ic[key]
                THEN OnlyKey(k) ELSE st.ic[key]
       IN [st EXCEPT !.ic = SetField(st.ic, key, SetKey(m, k, Append(m[k], id)))]

RECURSIVE AddKeys(_, _, _, _)
AddKeys(keys, record, id, st) ==
  IF keys = <<>> \/ st.err THEN st
  ELSE AddKeys(Tail(keys), record, id, AddKey(Head(keys), record[Head(keys)], id, st))

addToIndex(record, id, ic) == AddKeys(KeysOf(record), record, id, [ic |-> ic, err |-> FALSE])

UpdateKey(key, oldRecord, newValue, id, st) ==
  IF key \in IgnoredDBRecordKeys THEN st
  ELSE IF key \notin DOMAIN Schema THEN [st EXCEPT !.err = TRUE]
  ELSE IF ~IsIndexed(key) THEN st
  ELSE LET newK == ToKey(newValue)
           oldK == ToKey(FieldVal(oldRecord, key))
           m0 == IF key \notin DOMAIN st.ic THEN OnlyKey(newK) ELSE st.ic[key]
           ic0 == SetField(st.ic, key, m0)
       IN IF oldK \notin DOMAIN m0 THEN [ic |-> ic0, err |-> TRUE]
          ELSE LET m1 == SetKey(m0, oldK, Without(m0[oldK], id))
               IN IF newK \notin DOMAIN m1
                  THEN [ic |-> SetField(st.ic, key, m1), err |-> TRUE]
                  ELSE [ic |-> SetField(st.ic, key, SetKey(m1, newK, Append(m1[newK], id))),
                        err |-> FALSE]

RECURSIVE UpdateKeys(_, _, _, _, _)
UpdateKeys(keys, oldRecord, newRecord, id, st) ==
  IF keys = <<>> \/ st.err THEN st
  ELSE UpdateKeys(Tail(keys), oldRecord, newRecord, id,
                  UpdateKey(Head(keys), oldRecord, newRecord[Head(keys)], id, st))

updateInIndex(oldRecord, newRecord, id, ic) ==
  UpdateKeys(KeysOf(newRecord), oldRecord, newRecord, id, [ic |-> ic, err |-> FALSE])

DeleteKey(key, value, deleteId, st) ==
  IF key \in IgnoredDBRecordKeys THEN st
  ELSE IF key \notin DOMAIN Schema THEN [st EXCEPT !.err = TRUE]
  ELSE IF ~IsIndexed(key) THEN st
  ELSE LET k == ToKey(value)
           m0 == IF key \notin DOMAIN st.ic THEN OnlyKey(k) ELSE st.ic[key]
           ic0 == SetField(st.ic, key, m0)
       IN IF k \notin DOMAIN m0 THEN [ic |-> ic0, err |-> TRUE]
          ELSE [ic |-> SetField(st.ic, key, SetKey(m0, k, Without(m0[k], deleteId))),
                err |-> FALSE]

RECURSIVE DeleteKeys(_, _, _, _)
DeleteKeys(keys, oldRecord, deleteId, st) ==
  IF keys = <<>> \/ st.err THEN st
  ELSE DeleteKeys(Tail(keys), oldRecord, deleteId,
                  DeleteKey(Head(keys), oldRecord[Head(keys)], deleteId, st))

deleteInIndex(oldRecord, deleteId, ic) ==
  DeleteKeys(KeysOf(oldRecord), oldRecord, deleteId, [ic |-> ic, err |-> FALSE])

(***************************************************************************)
(* JSON.stringify / JSON.parse of the two caches (SkewerModel.ts 53-56,    *)
(* 66-69): a field holding undefined is not written; everything else of    *)
(* the values of this model reads back as it was written.  A file whose    *)
(* content is not JSON text makes JSON.parse throw a SyntaxError.          *)
(***************************************************************************)
DropUndefined(r) == [x \in {y \in DOMAIN r : r[y].t # "Undefined"} |-> r[x]]

RECURSIVE JSONData(_)
JSONData(dc) ==
  IF dc = <<>> THEN <<>>
  ELSE <<[k |-> Head(dc).k, r |-> DropUndefined(Head(dc).r)]>> \o JSONData(Tail(dc))

JSONIndex(ic) == ic

JSONParse(content) == content

NoFile == [exists |-> FALSE, json |-> TRUE, data |-> <<>>, index |-> EmptyIndex]
DataFileOf(content) == [exists |-> TRUE, json |-> TRUE, data |-> content, index |-> EmptyIndex]
IndexFileOf(content) == [exists |-> TRUE, json |-> TRUE, data |-> <<>>, index |-> content]
\* a file whose content is not JSON text
Garbled == [exists |-> TRUE, json |-> FALSE, data |-> <<>>, index |-> EmptyIndex]

VARIABLES
  dataCache,     \* this.dataCache: sequence of [k, r] in key order
  indexCache,    \* this.indexCache
  isTxnOpen,     \* this.isTxnOpen
  isIndexDirty,  \* this.isIndexDirty
  dataFile,      \* <path>.json
  indexFile,     \* <path>_index.json
  fg,            \* the async call the caller is awaiting, with its pending I/O
  bg,            \* async calls nobody awaits, each with its pending I/O
  pc,            \* the caller: "ready", "await" or "returned" (the last call
                 \* has just returned and no I/O has completed since)
  result,        \* the last call: its name, its outcome, what it returned
  now,           \* the clock behind new Date()
  calls,         \* the number of calls made so far
  g              \* history of the current transaction scenario

vars == <<dataCache, indexCache, isTxnOpen, isIndexDirty, dataFile, indexFile,
          fg, bg, pc, result, now, calls, g>>

\* an async call in flight: where it is, the record text it holds (dbuf, and
\* djson: whether that text is JSON), the index text it holds (ibuf)
NoTask == [kind |-> "none", phase |-> "", dbuf |-> <<>>, djson |-> TRUE, ibuf |-> EmptyIndex]
SaveTask(dc) ==
  [kind |-> "save", phase |-> "wdata", dbuf |-> JSONData(dc), djson |-> TRUE, ibuf |-> EmptyIndex]
LoadTask == [kind |-> "load", phase |-> "rdata", dbuf |-> <<>>, djson |-> TRUE, ibuf |-> EmptyIndex]
InitTask == [kind |-> "init", phase |-> "xdata", dbuf |-> <<>>, djson |-> TRUE, ibuf |-> EmptyIndex]

NoResult == [op |-> "", status |-> "", ret |-> <<>>, expect |-> 0]

GhostNone == [phase |-> "none", quiet |-> FALSE, base |-> <<>>, n |-> 0,
              only4 |-> TRUE, ins |-> {}, later |-> {}, laterOk |-> FALSE]

(***************************************************************************)
(* Ids.  randomUUID() returns an id that occurs nowhere in the state.      *)
(***************************************************************************)
RECURSIVE ListIds(_)
IndexIds(ic) == UNION {UNION {{ic[f][k][i] : i \in DOMAIN ic[f][k]} : k \in DOMAIN ic[f]} : f \in DOMAIN ic}
ListIds(ts) == IF ts = <<>> THEN {}
               ELSE Keys(Head(ts).dbuf) \cup IndexIds(Head(ts).ibuf) \cup ListIds(Tail(ts))

UsedIds(dc, ic) ==
  Keys(dc) \cup IndexIds(ic) \cup Keys(dataFile.data) \cup IndexIds(indexFile.index)
    \cup ListIds(<<fg>> \o bg)

FreshUuids(dc, ic) == {i \in 1..NumUuids : UuidText[i] \notin UsedIds(dc, ic)}
HasFresh(dc, ic) == FreshUuids(dc, ic) # {}
randomUUID(dc, ic) ==
  UuidText[CHOOSE i \in FreshUuids(dc, ic) : \A j \in FreshUuids(dc, ic) : i <= j]

(***************************************************************************)
(* The synchronous part of the mutating calls (everything before the       *)
(* await of saveFile).  st is [dc, ic, dirty]; the outcome is              *)
(* [dc, ic, dirty, status, ret], status "ok" or the error thrown;          *)
(* "nouuid" marks a run the bound on uuids cuts off.                       *)
(***************************************************************************)
Out(dc, ic, dirty, status, ret) ==
  [dc |-> dc, ic |-> ic, dirty |-> dirty, status |-> status, ret |-> ret]

Minus(r, fields) == [x \in DOMAIN r \ fields |-> r[x]]

\* a stamping that keeps the id field the caller's record carries
StampedKeepingId(record, id, t) ==
  [x \in DOMAIN record \cup {"id", "createdAt", "updatedAt"} |->
     IF x = "id" THEN (IF "id" \in DOMAIN record THEN record["id"] ELSE Str(id))
     ELSE IF x \in {"createdAt", "updatedAt"} THEN Stamp(t)
     ELSE record[x]]

\* record.id = newId; record.createdAt = ...; record.updatedAt = ...
Stamped(record, id, t) ==
  [x \in DOMAIN record \cup {"id", "createdAt", "updatedAt"} |->
     IF x = "id" THEN Str(id)
     ELSE IF x \in {"createdAt", "updatedAt"} THEN Stamp(t)
     ELSE record[x]]

\* { ...oldRecord, ...strippedNewRecord, updatedAt: ... }
Formed(oldRecord, stripped, t) ==
  [x \in DOMAIN oldRecord \cup DOMAIN stripped \cup {"updatedAt"} |->
     IF x = "updatedAt" THEN Stamp(t)
     ELSE IF x \in DOMAIN stripped THEN stripped[x]
     ELSE oldRecord[x]]

\* an insertOne that skips the duplicate-id check
NoDuplicateId(id, dc) == FALSE

\* id && this.dataCache[id]
IsDuplicateId(id, dc) == id # "" /\ DcHas(dc, id)

\* insertOne(record, id); id = "" when the caller gives none
insertOne(record, id, st, t) ==
  IF IsDuplicateId(id, st.dc)
  THEN Out(st.dc, st.ic, st.dirty, "DuplicateIdError", <<>>)
  ELSE IF ~validateSchema(record, FALSE, st.dc, st.ic)
  THEN Out(st.dc, st.ic, st.dirty, "SchemaValidationError", <<>>)
  ELSE IF id = "" /\ ~HasFresh(st.dc, st.ic)
  THEN Out(st.dc, st.ic, st.dirty, "nouuid", <<>>)
  ELSE LET newId == IF id # "" THEN id ELSE randomUUID(st.dc, st.ic)
           a == addToIndex(Minus(record, {"id"}), newId, st.ic)
           rec == Stamped(record, newId, t)
       IN IF a.err THEN Out(st.dc, a.ic, TRUE, "TypeError", <<>>)
          ELSE Out(DcPut(st.dc, newId, rec), a.ic, TRUE, "ok", <<rec>>)

\* one turn of the forEach of insertMany; x carries its id when the caller
\* gave one
InsertManyItem(x, st, t) ==
  IF ~validateSchema(x, FALSE, st.dc, st.ic)
  THEN Out(st.dc, st.ic, st.dirty, "SchemaValidationError", <<>>)
  ELSE IF ~Truthy(FieldVal(x, "id")) /\ ~HasFresh(st.dc, st.ic)
  THEN Out(st.dc, st.ic, st.dirty, "nouuid", <<>>)
  ELSE LET newId == IF Truthy(FieldVal(x, "id")) THEN ToKey(x["id"])
                    ELSE randomUUID(st.dc, st.ic)
           a == addToIndex(x, newId, st.ic)
           rec == Stamped(x, newId, t)
       IN IF a.err THEN Out(st.dc, a.ic, TRUE, "TypeError", <<>>)
          ELSE Out(DcPut(st.dc, newId, rec), a.ic, TRUE, "ok", <<rec>>)

RECURSIVE InsertManyLoop(_, _, _)
InsertManyLoop(newRecords, o, t) ==
  IF newRecords = <<>> \/ o.status # "ok" THEN o
  ELSE LET one == InsertManyItem(Head(newRecords), o, t)
       IN InsertManyLoop(Tail(newRecords),
                         [one EXCEPT !.ret = IF one.status = "ok" THEN o.ret \o one.ret ELSE <<>>],
                         t)

insertMany(newRecords, st, t) ==
  InsertManyLoop(newRecords, Out(st.dc, st.ic, st.dirty, "ok", <<>>), t)

updateById(recordId, newRecord, st, t) ==
  IF ~DcHas(st.dc, recordId)
  THEN Out(st.dc, st.ic, st.dirty, "RecordNotFoundError", <<>>)
  ELSE LET oldRecord == DcGet(st.dc, recordId)
           stripped == Minus(newRecord, {"id", "createdAt", "updatedAt"})
           u == updateInIndex(oldRecord, stripped, ToKey(FieldVal(oldRecord, "id")), st.ic)
           formed == Formed(oldRecord, stripped, t)
       IN IF u.err THEN Out(st.dc, u.ic, TRUE, "TypeError", <<>>)
          ELSE IF ~validateSchema(formed, TRUE, st.dc, u.ic)
          THEN Out(st.dc, u.ic, TRUE, "SchemaValidationError", <<>>)
          ELSE Out(DcPut(st.dc, recordId, formed), u.ic, TRUE, "ok", <<formed>>)

\* an insertOrUpdate that always takes the insert branch
insertOrUpdateInsertOnly(record, id, st, t) == insertOne(record, id, st, t)

insertOrUpdate(record, id, st, t) ==
  IF DcHas(st.dc, id) THEN updateById(id, record, st, t)
  ELSE insertOne(record, id, st, t)

\* a deleteById that does not look the record up
deleteByIdUnchecked(recordId, st) == Out(DcDel(st.dc, recordId), st.ic, TRUE, "ok", <<>>)

deleteById(recordId, st) ==
  IF ~DcHas(st.dc, recordId)
  THEN Out(st.dc, st.ic, st.dirty, "RecordNotFoundError", <<>>)
  ELSE LET deletedRecord == DcGet(st.dc, recordId)
           dc2 == DcDel(st.dc, recordId)
           d == deleteInIndex(deletedRecord, recordId, st.ic)
       IN IF d.err THEN Out(dc2, d.ic, TRUE, "TypeError", <<>>)
          ELSE Out(dc2, d.ic, TRUE, "ok", <<deletedRecord>>)

\* a deleteAll that leaves the data cache as it is
deleteAllKeeping(st) == Out(st.dc, st.ic, st.dirty, "ok", <<>>)

deleteAll(st) == Out(<<>>, st.ic, st.dirty, "ok", <<>>)

\* a saveFile that ignores the transaction gate
SaveFileUngated(txnOpen) == TRUE

\* a saveFile that never writes
SaveFileNever(txnOpen) == FALSE

\* saveFile (SkewerModel.ts 64-72) starts a write unless a transaction is open
SaveFileWrites(txnOpen) == ~txnOpen

Init ==
  /\ dataCache = <<>>
  /\ indexCache = EmptyIndex
  /\ isTxnOpen = FALSE
  /\ isIndexDirty = FALSE
  /\ dataFile = NoFile
  /\ indexFile = NoFile
  /\ fg = NoTask
  /\ bg = <<>>
  /\ pc = "ready"
  /\ result = NoResult
  /\ now = 0
  /\ calls = 0
  /\ g = GhostNone

(***************************************************************************)
(* What the caller passes.                                                 *)
(***************************************************************************)
Absent == "-"

\* a record with an age and, unless nm is Absent, a name
MkRec(nm, ag) ==
  [f \in (IF nm = Absent THEN {} ELSE {"name"}) \cup {"age"} |->
     IF f = "name" THEN Str(nm) ELSE Num(ag)]

\* the records the caller inserts: two names, a record without the optional
\* name, two ages
InsertRecords == {MkRec("a", 1), MkRec("b", 1), MkRec(Absent, 2)}

\* the partial updates the caller passes
Partials ==
  {[f \in {"name"} |-> Str("a")], [f \in {"name"} |-> Str("b")],
   [f \in {"age"} |-> Num(2)], [f \in {} |-> Undef]}

\* a batch item: a record, with an id field when the caller supplies one
WithId(r, id) ==
  IF id = "" THEN r
  ELSE [f \in DOMAIN r \cup {"id"} |-> IF f = "id" THEN Str(id) ELSE r[f]]

\* the batch items the caller passes: one without an id, two under the
\* same custom id
BatchItems ==
  {MkRec("a", 1), WithId(MkRec("b", 1), "c1"), WithId(MkRec(Absent, 2), "c1")}
Batches == UNION {[1..n -> BatchItems] : n \in 1..MaxBatch}

\* values of every runtime type, the falsy one of each among them
TypedValues ==
  {Str("a"), Str("z"), Str(""), Num(1), Num(0), Bool(TRUE), Bool(FALSE), Arr("x"), Arr("")}

\* { ...record, [f]: v }
SetTo(record, f, v) ==
  [x \in DOMAIN record \cup {f} |-> IF x = f THEN v ELSE record[x]]

\* the fields the caller of typed values sets
TypedFields == {"name", "age", "keyword"}

\* a valid record with one field set to a value of any type
TypedRecords == {SetTo(MkRec("a", 1), f, v) : f \in TypedFields, v \in TypedValues}

\* a partial update of one field to a value of any type
TypedPartials == {[x \in {f} |-> v] : f \in TypedFields, v \in TypedValues}

\* batches one record longer than those of Batches
LongBatches == [1..(MaxBatch + 1) -> BatchItems]

MutatingOps == {"insertOne", "insertMany", "updateById", "insertOrUpdate",
                "deleteById", "deleteAll"}
InsertOps == {"insertOne", "insertMany"}
\* the calls the rollback scenario allows inside the transaction
RollbackOps == {"insertOne", "updateById", "deleteById", "deleteAll"}

(***************************************************************************)
(* The caller and the history of the transaction scenario it is in.        *)
(***************************************************************************)
CanCall == pc \in {"ready", "returned"} /\ calls < MaxCalls
Called == calls' = calls + 1

St == [dc |-> dataCache, ic |-> indexCache, dirty |-> isIndexDirty]

WithinBounds(o) ==
  /\ o.status # "nouuid"
  /\ Len(o.dc) <= MaxRecords
  /\ \A f \in DOMAIN o.ic : \A k \in DOMAIN o.ic[f] : Len(o.ic[f][k]) <= MaxList

RetSet(ret) == {ret[i] : i \in DOMAIN ret}

GhostMutate(op, o, returnsNow) ==
  IF g.phase = "open"
  THEN [g EXCEPT !.n = IF g.n < 2 THEN g.n + 1 ELSE 2,
                 !.only4 = g.only4 /\ op \in RollbackOps,
                 !.ins = IF op = "insertOne" /\ o.status = "ok"
                         THEN g.ins \cup RetSet(o.ret) ELSE g.ins]
  ELSE IF g.phase = "aborted"
  THEN [g EXCEPT !.phase = "abortedMut",
                 !.later = IF op \in {"deleteById"} THEN {} ELSE RetSet(o.ret),
                 !.laterOk = returnsNow /\ o.status = "ok"]
  ELSE GhostNone

\* the ids of the records of ret that were not keys of dc
NewlyKeyed(ret, dc) == {ToKey(FieldVal(ret[i], "id")) : i \in DOMAIN ret} \ Keys(dc)

\* The end of every mutating call: the caches take the outcome, and
\* `await this.saveFile()` either starts the write of the record file (the
\* caller waits for the flush) or, inside a transaction, returns at once.
Finish(op, o) ==
  LET flush == o.status = "ok" /\ SaveFileWrites(isTxnOpen)
      rs == [op |-> op, status |-> IF flush THEN "pending" ELSE o.status, ret |-> o.ret,
             expect |-> IF op \in InsertOps /\ o.status = "ok"
                        THEN Len(dataCache) + Cardinality(NewlyKeyed(o.ret, dataCache))
                        ELSE 0]
  IN /\ CanCall
     /\ WithinBounds(o)
     /\ dataCache' = o.dc
     /\ indexCache' = o.ic
     /\ isIndexDirty' = o.dirty
     /\ fg' = IF flush THEN SaveTask(o.dc) ELSE fg
     /\ pc' = IF flush THEN "await" ELSE "returned"
     /\ result' = rs
     /\ g' = GhostMutate(op, o, ~flush)
     /\ Called
     /\ UNCHANGED <<isTxnOpen, dataFile, indexFile, bg, now>>

InsertOne(record, id) == Finish("insertOne", insertOne(record, id, St, now))

InsertMany(newRecords) == Finish("insertMany", insertMany(newRecords, St, now))

UpdateById(recordId, newRecord) ==
  Finish("updateById", updateById(recordId, newRecord, St, now))

InsertOrUpdate(record, id) ==
  Finish("insertOrUpdate", insertOrUpdate(record, id, St, now))

DeleteById(recordId) == Finish("deleteById", deleteById(recordId, St))

DeleteAll == Finish("deleteAll", deleteAll(St))

Returned(op) == [op |-> op, status |-> "ok", ret |-> <<>>, expect |-> 0]

\* openTransaction (SkewerModel.ts 219-221)
OpenTransaction ==
  /\ CanCall
  /\ Called
  /\ isTxnOpen' = TRUE
  /\ pc' = "returned"
  /\ result' = Returned("openTransaction")
  /\ g' = IF isTxnOpen THEN GhostNone
          ELSE [GhostNone EXCEPT
                  !.phase = "open",
                  !.quiet = /\ bg = <<>>
                            /\ dataFile = DataFileOf(JSONData(dataCache))
                            /\ indexFile = IndexFileOf(JSONIndex(indexCache)),
                  !.base = JSONParse(dataFile.data)]
  /\ UNCHANGED <<dataCache, indexCache, isIndexDirty, dataFile, indexFile, fg, bg, now>>

\* commitTransaction (SkewerModel.ts 226-229): saveFile() is started and not
\* awaited, so the call returns while the writes are pending
\* (at most limit tasks are pending at once)
CommitWithin(limit) ==
  /\ CanCall
  /\ Called
  /\ Len(bg) < limit
  /\ isTxnOpen' = FALSE
  /\ bg' = IF SaveFileWrites(FALSE) THEN Append(bg, SaveTask(dataCache)) ELSE bg
  /\ pc' = "returned"
  /\ result' = Returned("commitTransaction")
  /\ g' = IF g.phase = "open" THEN [g EXCEPT !.phase = "committed"] ELSE GhostNone
  /\ UNCHANGED <<dataCache, indexCache, isIndexDirty, dataFile, indexFile, fg, now>>

CommitTransaction == CommitWithin(MaxBackground)

\* abortTransaction (SkewerModel.ts 234-237): loadFile() is started and not
\* awaited, so the call returns while the reads are pending
AbortWithin(limit) ==
  /\ CanCall
  /\ Called
  /\ Len(bg) < limit
  /\ isTxnOpen' = FALSE
  /\ bg' = Append(bg, LoadTask)
  /\ pc' = "returned"
  /\ result' = Returned("abortTransaction")
  /\ g' = IF g.phase = "open" THEN [g EXCEPT !.phase = "aborted"] ELSE GhostNone
  /\ UNCHANGED <<dataCache, indexCache, isIndexDirty, dataFile, indexFile, fg, now>>

AbortTransaction == AbortWithin(MaxBackground)

\* initialize (SkewerModel.ts 196-214), awaited by the caller
Initialize ==
  /\ CanCall
  /\ Called
  /\ fg' = InitTask
  /\ pc' = "await"
  /\ result' = [Returned("initialize") EXCEPT !.status = "pending"]
  /\ g' = IF g.phase = "committed" THEN [g EXCEPT !.phase = "committedInit"]
          ELSE IF g.phase = "aborted" THEN [g EXCEPT !.phase = "abortedInit"]
          ELSE GhostNone
  /\ UNCHANGED <<dataCache, indexCache, isTxnOpen, isIndexDirty, dataFile, indexFile, bg, now>>

(***************************************************************************)
(* The completion of the pending file operation of an async call, and the  *)
(* code that runs after its await, up to the next await.                   *)
(***************************************************************************)
\* err is the name of the error the call throws at this point, or NoError
NoError == ""

Step(task, fin, err, df, xf, dc, ic) ==
  [task |-> task, fin |-> fin, err |-> err, df |-> df, xf |-> xf, dc |-> dc, ic |-> ic]

\* saveFile after the record file is written (SkewerModel.ts 66-70)
AfterDataWrite(t) ==
  IF isIndexDirty
  THEN Step([t EXCEPT !.phase = "windex", !.ibuf = JSONIndex(indexCache)], FALSE, NoError,
            DataFileOf(t.dbuf), indexFile, dataCache, indexCache)
  ELSE Step(NoTask, TRUE, NoError, DataFileOf(t.dbuf), indexFile, dataCache, indexCache)

\* loadFile after both reads (SkewerModel.ts 47-56): a failed read is caught
\* and rethrown as FileLoadError; the two JSON.parse calls are outside the
\* try block, and the data cache is assigned between them
AfterIndexRead(t) ==
  IF ~indexFile.exists
  THEN Step(NoTask, TRUE, "FileLoadError", dataFile, indexFile, dataCache, indexCache)
  ELSE IF ~t.djson
  THEN Step(NoTask, TRUE, "SyntaxError", dataFile, indexFile, dataCache, indexCache)
  ELSE IF ~indexFile.json
  THEN Step(NoTask, TRUE, "SyntaxError", dataFile, indexFile, JSONParse(t.dbuf), indexCache)
  ELSE Step(NoTask, TRUE, NoError, dataFile, indexFile,
            JSONParse(t.dbuf), JSONParse(indexFile.index))

\* an initialize that writes '{}' whether or not the file is there
AnyFile(file) == TRUE

\* !(await FileStorage.exists(path)) of initialize (SkewerModel.ts 202, 207)
MissingFile(file) == ~file.exists

TaskNext(t) ==
  CASE t.phase = "wdata" -> AfterDataWrite(t)
    [] t.phase = "windex" ->
         Step(NoTask, TRUE, NoError, dataFile, IndexFileOf(t.ibuf), dataCache, indexCache)
    [] t.phase = "rdata" ->
         IF ~dataFile.exists
         THEN Step(NoTask, TRUE, "FileLoadError", dataFile, indexFile, dataCache, indexCache)
         ELSE Step([t EXCEPT !.phase = "rindex", !.dbuf = dataFile.data,
                             !.djson = dataFile.json],
                   FALSE, NoError, dataFile, indexFile, dataCache, indexCache)
    [] t.phase = "rindex" -> AfterIndexRead(t)
    [] t.phase = "xdata" ->
         Step([t EXCEPT !.phase = IF MissingFile(dataFile) THEN "mkdata" ELSE "xindex"],
              FALSE, NoError, dataFile, indexFile, dataCache, indexCache)
    [] t.phase = "mkdata" ->
         Step([t EXCEPT !.phase = "xindex"], FALSE, NoError,
              DataFileOf(<<>>), indexFile, dataCache, indexCache)
    [] t.phase = "xindex" ->
         Step([t EXCEPT !.phase = IF MissingFile(indexFile) THEN "mkindex" ELSE "rdata"],
              FALSE, NoError, dataFile, indexFile, dataCache, indexCache)
    [] t.phase = "mkindex" ->
         Step([t EXCEPT !.phase = "rdata"], FALSE, NoError,
              dataFile, IndexFileOf(EmptyIndex), dataCache, indexCache)

Apply(n) ==
  /\ dataFile' = n.df
  /\ indexFile' = n.xf
  /\ dataCache' = n.dc
  /\ indexCache' = n.ic

\* the awaited call moves on; when it is done the caller gets its result
FgStep ==
  /\ pc = "await"
  /\ LET n == TaskNext(fg)
     IN /\ Apply(n)
        /\ fg' = n.task
        /\ pc' = IF n.fin THEN "returned" ELSE "await"
        /\ result' = IF ~n.fin THEN result
                     ELSE [result EXCEPT !.status = IF n.err = NoError THEN "ok" ELSE n.err]
        /\ g' = IF n.fin /\ n.err = NoError /\ g.phase = "abortedMut"
                THEN [g EXCEPT !.laterOk = TRUE] ELSE g
  /\ UNCHANGED <<isTxnOpen, isIndexDirty, bg, now, calls>>

Remove(seq, i) == SubSeq(seq, 1, i - 1) \o SubSeq(seq, i + 1, Len(seq))
Replace(seq, i, x) == SubSeq(seq, 1, i - 1) \o <<x>> \o SubSeq(seq, i + 1, Len(seq))

\* an un-awaited call moves on
BgStep(i) ==
  /\ LET n == TaskNext(bg[i])
     IN /\ Apply(n)
        /\ bg' = IF n.fin THEN Remove(bg, i) ELSE Replace(bg, i, n.task)
  /\ pc' = IF pc = "returned" THEN "ready" ELSE pc
  /\ result' = IF pc = "returned" THEN NoResult ELSE result
  /\ UNCHANGED <<isTxnOpen, isIndexDirty, fg, now, calls, g>>

\* time passes between two calls
Tick ==
  /\ pc \in {"ready", "returned"}
  /\ now < MaxClock
  /\ now' = now + 1
  /\ UNCHANGED <<dataCache, indexCache, isTxnOpen, isIndexDirty, dataFile, indexFile,
                 fg, bg, pc, result, calls, g>>

\* the mutating calls and initialize, each awaited by the caller
CallNext ==
  \/ \E r \in InsertRecords, id \in CustomIds \cup {""} : InsertOne(r, id)
  \/ \E b \in Batches : InsertMany(b)
  \/ \E id \in Ids, p \in Partials : UpdateById(id, p)
  \/ \E r \in InsertRecords, id \in Ids : InsertOrUpdate(r, id)
  \/ \E id \in Ids : DeleteById(id)
  \/ DeleteAll
  \/ Initialize
  \/ FgStep

\* The model with its transactions: every call, and the file operations of
\* the awaited and of the un-awaited async calls in any order.  No call reads
\* a timestamp back, so the clock stands still here.
Next ==
  \/ CallNext
  \/ OpenTransaction
  \/ CommitTransaction
  \/ AbortTransaction
  \/ \E i \in DOMAIN bg : BgStep(i)

Spec == Init /\ [][Next]_vars

\* A caller that opens no transaction, with the clock running.
NextNoTxn ==
  \/ CallNext
  \/ Tick

SpecNoTxn == Init /\ [][NextNoTxn]_vars

\* A caller that passes values of every type, and long batches.
CanCallTyped == calls < MaxTypedCalls

NextTyped ==
  \/ \E r \in TypedRecords, id \in CustomIds \cup {""} : CanCallTyped /\ InsertOne(r, id)
  \/ \E id \in Ids, p \in TypedPartials : CanCallTyped /\ UpdateById(id, p)
  \/ \E b \in LongBatches : CanCallTyped /\ InsertMany(b)
  \/ FgStep

SpecTyped == Init /\ [][NextTyped]_vars

(***************************************************************************)
(* Reads, and the vocabulary of the claims.                                *)
(***************************************************************************)
\* findById(recordId): the stored record, or Undef
findById(recordId) ==
  IF DcHas(dataCache, recordId) THEN DcGet(dataCache, recordId) ELSE Undef

countAll == Len(dataCache)

getAllRecords == DcValues(dataCache)

IdOf(r) == ToKey(FieldVal(r, "id"))

\* the equality predicates a caller searches with: one or two fields, in
\* either order
Predicates ==
  {[key |-> "name", value |-> Str("a")], [key |-> "name", value |-> Str("b")],
   [key |-> "age", value |-> Num(1)], [key |-> "age", value |-> Num(2)]}
SearchParams ==
  {<<p>> : p \in Predicates}
    \cup {<<p, q>> : p \in {x \in Predicates : x.key = "name"},
                     q \in {x \in Predicates : x.key = "age"}}
    \cup {<<q, p>> : p \in {x \in Predicates : x.key = "name"},
                     q \in {x \in Predicates : x.key = "age"}}

Matches(r, searchPArr) ==
  \A i \in DOMAIN searchPArr : FieldVal(r, searchPArr[i].key) = searchPArr[i].value

Stored == RetSet(getAllRecords)

UniqueFields == {f \in DOMAIN Schema : Schema[f].unique}

\* some stored record holds r's value of a unique field
HeldByStored(r) ==
  \E f \in UniqueFields : \E s \in Stored : f \in DOMAIN r /\ f \in DOMAIN s /\ s[f] = r[f]

\* C1: no two distinct records of the data cache hold the same value of a
\* unique field, and an insert whose unique value a stored record holds fails
\* with SchemaValidationError.
C1_UniqueValuesHeldOnce ==
  /\ \A i, j \in DOMAIN dataCache : \A f \in UniqueFields :
       (i # j /\ f \in DOMAIN dataCache[i].r /\ f \in DOMAIN dataCache[j].r)
         => dataCache[i].r[f] # dataCache[j].r[f]
  /\ \A r \in InsertRecords :
       HeldByStored(r) => insertOne(r, "", St, now).status = "SchemaValidationError"

\* C2: find returns every record of the data cache that satisfies all the
\* predicates.
C2_FindComplete ==
  \A ps \in SearchParams : \A s \in Stored :
    Matches(s, ps) => s \in RetSet(find(ps, dataCache, indexCache))

\* C3: every record find returns is stored in the data cache and satisfies
\* all the predicates.
C3_FindSound ==
  \A ps \in SearchParams : \A r \in RetSet(find(ps, dataCache, indexCache)) :
    r \in Stored /\ Matches(r, ps)

\* C4: when insertOne or insertMany has returned successfully, every returned
\* record carries id, createdAt and updatedAt, findById of its id is that
\* record, and countAll has grown by the number of ids of the returned
\* records that were not keys before.
C4_InsertRoundTrip ==
  (pc = "returned" /\ result.op \in InsertOps /\ result.status = "ok")
    => /\ \A s \in RetSet(result.ret) :
            /\ {"id", "createdAt", "updatedAt"} \subseteq DOMAIN s
            /\ findById(IdOf(s)) = s
       /\ countAll = result.expect

\* the transaction of the scenario was opened with nothing pending and both
\* files holding what the caches held
Quiet == g.quiet

\* C5: openTransaction(); insertOne(r); await commitTransaction();
\* await initialize() ends with findById(r.id) returning r and countAll
\* counting it.
C5_CommitDurable ==
  (g.phase = "committedInit" /\ pc = "returned" /\ Quiet /\ g.n = 1 /\ g.ins # {})
    => /\ result.status = "ok"
       /\ \A r \in g.ins : findById(IdOf(r)) = r
       /\ countAll >= 1

\* C6: when the files held S at openTransaction, then after any insertOne /
\* updateById / deleteById / deleteAll calls made while Open, followed by
\* abortTransaction() and initialize(), the data cache equals S.
C6_Rollback ==
  (g.phase = "abortedInit" /\ pc # "await" /\ Quiet /\ g.only4)
    => dataCache = g.base

C6_Witness ==
  /\ g.phase = "abortedInit" /\ pc = "returned" /\ Quiet /\ g.only4
  /\ g.base # <<>>
  /\ \E r \in g.ins : IdOf(r) \notin Keys(g.base)
  /\ result.status = "ok"

\* C7: when the promise of abortTransaction() has resolved, both caches have
\* been reloaded from the files.
C7_AbortReloaded ==
  (g.phase = "aborted" /\ pc = "returned" /\ Quiet)
    => /\ dataCache = g.base
       /\ indexCache = JSONParse(indexFile.index)

\* C8: a mutation made in an aborted transaction is never written to a file,
\* also not by the flush of a later mutating call; and the mutation of such a
\* later call, once it returned successfully, stays in the data cache.
C8_AbortedNeverWritten ==
  (g.phase = "abortedMut" /\ Quiet)
    => /\ \A r \in g.ins :
            (IdOf(r) \notin {IdOf(s) : s \in g.later} /\ IdOf(r) \notin Keys(g.base))
              => /\ IdOf(r) \notin Keys(dataFile.data)
                 /\ IdOf(r) \notin IndexIds(indexFile.index)
       /\ (g.laterOk /\ pc # "await") => \A s \in g.later : findById(IdOf(s)) = s

\* the caller makes a mutating call while the transaction is Open
OpenMutation(op) == isTxnOpen /\ calls' = calls + 1 /\ result'.op = op

\* the reads made after the step see record s
Observed(s) ==
  /\ DcHas(dataCache', IdOf(s)) /\ DcGet(dataCache', IdOf(s)) = s
  /\ \A f \in DOMAIN Schema :
       f \in DOMAIN s =>
         s \in RetSet(find(<<[key |-> f, value |-> s[f]]>>, dataCache', indexCache'))

\* the reads made after the step do not see the record with this id
Unobserved(id) ==
  /\ ~DcHas(dataCache', id)
  /\ \A ps \in SearchParams :
       \A r \in RetSet(find(ps, dataCache', indexCache')) : IdOf(r) # id

\* C9: a mutating call made while the transaction is Open changes the caches
\* so that the reads observe it, and starts no write of either file.
C9_OpenMutationsInMemory ==
  [][(\E op \in MutatingOps : OpenMutation(op))
       => /\ UNCHANGED <<dataFile, indexFile, fg, bg>>
          /\ pc' = "returned"
          /\ result'.status = "ok" =>
               /\ result'.op \in {"insertOne", "insertMany", "updateById", "insertOrUpdate"}
                    => \A s \in RetSet(result'.ret) : Observed(s)
               /\ result'.op = "deleteById"
                    => \A s \in RetSet(result'.ret) : Unobserved(IdOf(s))
               /\ result'.op = "deleteAll" => Len(dataCache') = 0]_vars

\* C10: outside a transaction, after each mutating call that returned
\* successfully the record file equals the data cache and the index file
\* equals the index cache.
C10_FilesMirrorCaches ==
  (pc = "returned" /\ result.op \in MutatingOps /\ result.status = "ok" /\ ~isTxnOpen)
    => /\ dataFile = DataFileOf(JSONData(dataCache))
       /\ indexFile.exists => indexFile = IndexFileOf(JSONIndex(indexCache))

(***************************************************************************)
(* Single calls: what one step of a call does to the state it starts in.   *)
(***************************************************************************)
\* the call of this step did not throw
Succeeded == result'.status \in {"ok", "pending"}

\* the record the contract of updateById stores: the old record overlaid
\* with the partial, updatedAt refreshed
Overlaid(id, partial) ==
  Formed(DcGet(dataCache, id), Minus(partial, {"id", "createdAt", "updatedAt"}), now)

\* the record meets the schema, and no record other than id holds one of its
\* unique values
MeetsSchema(rec, id) ==
  \A f \in DOMAIN Schema :
    LET v == FieldVal(rec, f)
    IN /\ Schema[f].required => (v.t # "Undefined" /\ ~ToStringEmpty(v))
       /\ f \in DOMAIN rec => v.t = Schema[f].type
       /\ (f \in DOMAIN rec /\ Schema[f].hasEnum) => v \in Schema[f].enum
       /\ (f \in DOMAIN rec /\ Schema[f].unique) =>
            \A s \in Stored : IdOf(s) # id => FieldVal(s, f) # v

\* find on one field's value returns the record stored under id
FoundBy(f, v, id, dc, ic) ==
  \E r \in RetSet(find(<<[key |-> f, value |-> v]>>, dc, ic)) : IdOf(r) = id

\* C11: updateById on an existing id succeeds for every partial that passes
\* validation; afterwards findById(id) is the old record overlaid with the
\* partial, find on the new value of a changed indexed field returns the
\* record and find on its old value does not.
C11_UpdateSucceeds ==
  [][\A id \in Ids, partial \in Partials :
       (/\ DcHas(dataCache, id)
        /\ MeetsSchema(Overlaid(id, partial), id)
        /\ UpdateById(id, partial))
         => /\ Succeeded
            /\ DcHas(dataCache', id)
            /\ DcGet(dataCache', id) = Overlaid(id, partial)
            /\ \A f \in DOMAIN partial \cap IndexedFields :
                 LET old == FieldVal(DcGet(dataCache, id), f)
                 IN /\ FoundBy(f, partial[f], id, dataCache', indexCache')
                    /\ old # partial[f] => ~FoundBy(f, old, id, dataCache', indexCache')]_vars

\* C12: deleteById succeeds for every id present in the data cache: it
\* returns the stored record, removes it from the data cache and its id from
\* the index cache, and flushes; it raises nothing but RecordNotFoundError,
\* and that only when the id is absent.
C12_DeleteSucceeds ==
  [][\A id \in Ids :
       DeleteById(id)
         => /\ DcHas(dataCache, id)
              => /\ Succeeded
                 /\ result'.ret = <<DcGet(dataCache, id)>>
                 /\ ~DcHas(dataCache', id)
                 /\ Len(dataCache') = Len(dataCache) - 1
                 /\ id \notin IndexIds(indexCache')
                 /\ ~isTxnOpen => (pc' = "await" /\ fg' = SaveTask(dataCache'))
            /\ ~Succeeded
              => (result'.status = "RecordNotFoundError" /\ ~DcHas(dataCache, id))]_vars

\* C13: updateById that sets a unique field of record id to a value another
\* record holds fails with SchemaValidationError, and the record keeps its
\* old value.
C13_UpdateToHeldValueRejected ==
  [][\A id \in Ids, partial \in Partials :
       (/\ DcHas(dataCache, id)
        /\ \E f \in DOMAIN partial \cap UniqueFields : \E s \in Stored :
             IdOf(s) # id /\ FieldVal(s, f) = partial[f]
        /\ UpdateById(id, partial))
         => /\ result'.status = "SchemaValidationError"
            /\ DcGet(dataCache', id) = DcGet(dataCache, id)]_vars

\* the step leaves both caches, the dirty flag and both files alone, and
\* starts no file operation
NothingTouched ==
  UNCHANGED <<dataCache, indexCache, isIndexDirty, dataFile, indexFile, fg, bg>>

WrongType(record) ==
  \E f \in DOMAIN Schema \cap DOMAIN record : record[f].t # Schema[f].type

Rejected == result'.status = "SchemaValidationError" /\ dataCache' = dataCache

\* C16: insertOne and updateById fail with SchemaValidationError whenever a
\* schema field is present in the record with a runtime type other than the
\* declared one, and nothing is stored.
C16_WrongTypeRejected ==
  [][/\ \A record \in TypedRecords, id \in CustomIds \cup {""} :
          (~IsDuplicateId(id, dataCache) /\ WrongType(record) /\ InsertOne(record, id))
            => Rejected
     /\ \A id \in Ids, partial \in TypedPartials :
          (DcHas(dataCache, id) /\ WrongType(partial) /\ UpdateById(id, partial))
            => Rejected]_vars

\* the String fields with an enum constraint
EnumFields == {f \in DOMAIN Schema : Schema[f].hasEnum /\ Schema[f].type = "String"}

\* a field with an enum constraint holds a string outside the declared set
OutsideEnum(record) ==
  \E f \in EnumFields \cap DOMAIN record :
    record[f].t = "String" /\ record[f] \notin Schema[f].enum

\* C17: insertOne and updateById fail with SchemaValidationError when the
\* value of a String field with an enum constraint is not a member of the
\* declared set; a member passes the enum check.
C17_EnumChecked ==
  [][/\ \A record \in TypedRecords, id \in CustomIds \cup {""} :
          (~IsDuplicateId(id, dataCache) /\ OutsideEnum(record) /\ InsertOne(record, id))
            => Rejected
     /\ \A id \in Ids, partial \in TypedPartials :
          (DcHas(dataCache, id) /\ OutsideEnum(partial) /\ UpdateById(id, partial))
            => Rejected
     /\ \A f \in EnumFields : \A v \in Schema[f].enum : ~EnumViolation(Schema[f], v)]_vars

\* the step applies the outcome o of the synchronous part of a call
Applies(o) ==
  /\ dataCache' = o.dc
  /\ indexCache' = o.ic
  /\ result'.ret = o.ret
  /\ IF o.status = "ok" THEN Succeeded ELSE result'.status = o.status

\* C18: insertOrUpdate(record, id) does what updateById(id, record) does
\* when id is a key of the data cache and what insertOne(record, id) does
\* otherwise; the record it stores has the given id, and it never adds a
\* record under another id nor a second one under this id.
C18_InsertOrUpdateDispatches ==
  [][\A record \in InsertRecords, id \in Ids :
       InsertOrUpdate(record, id)
         => /\ DcHas(dataCache, id) => Applies(updateById(id, record, St, now))
            /\ ~DcHas(dataCache, id) => Applies(insertOne(record, id, St, now))
            /\ Succeeded
                 => (DcHas(dataCache', id) /\ IdOf(DcGet(dataCache', id)) = id)
            /\ Keys(dataCache') \subseteq Keys(dataCache) \cup {id}
            /\ DcHas(dataCache, id) => Len(dataCache') = Len(dataCache)]_vars

\* insertOrUpdate has returned the record of its update branch
C18_Witness ==
  /\ pc = "returned"
  /\ result.op = "insertOrUpdate" /\ result.status = "ok"
  /\ countAll = 1
  /\ \E s \in RetSet(result.ret) :
       findById(IdOf(s)) = s /\ s["createdAt"] # s["updatedAt"]

InOwnLists(r, ic) ==
  \A f \in IndexedFields \cap DOMAIN r :
    \E i \in DOMAIN IndexLookup(ic, f, r[f]) : IndexLookup(ic, f, r[f])[i] = IdOf(r)

\* C20: when the k-th record of an insertMany batch fails validation, the
\* call raises the error, the records before it are in the data cache and
\* the index cache, the k-th and later ones are not, and nothing is flushed.
C20_InsertManyFailFast ==
  [][\A b \in LongBatches :
       (InsertMany(b) /\ result'.status = "SchemaValidationError")
         => \E k \in 1..Len(b) :
              LET before == insertMany(SubSeq(b, 1, k - 1), St, now)
              IN /\ before.status = "ok"
                 /\ insertMany(SubSeq(b, 1, k), St, now).status = "SchemaValidationError"
                 /\ \A r \in RetSet(before.ret) :
                      /\ DcHas(dataCache', IdOf(r)) /\ DcGet(dataCache', IdOf(r)) = r
                      /\ InOwnLists(r, indexCache')
                 /\ Keys(dataCache') = Keys(dataCache) \cup {IdOf(r) : r \in RetSet(before.ret)}
                 /\ pc' = "returned"
                 /\ UNCHANGED <<dataFile, indexFile, fg, bg>>]_vars

(***************************************************************************)
(* The index cache against the data cache.                                 *)
(***************************************************************************)
\* how many times id occurs in an index list
Occurrences(list, id) == Cardinality({i \in DOMAIN list : list[i] = id})

\* the value keys the index cache holds for a field
ValueKeys(ic, f) == IF f \in DOMAIN ic THEN DOMAIN ic[f] ELSE {}

\* C21: for every record r of the data cache and every unique or indexed
\* schema field f that r carries, the id of r occurs exactly once in the
\* index list of f under r's value, and in no list of f under another value.
C21_IndexComplete ==
  \A r \in Stored : \A f \in IndexedFields \cap DOMAIN r :
    /\ Occurrences(IndexLookup(indexCache, f, r[f]), IdOf(r)) = 1
    /\ \A k \in ValueKeys(indexCache, f) \ {ToKey(r[f])} :
         Occurrences(indexCache[f][k], IdOf(r)) = 0

\* C22: every index list of a unique field holds at most one id.
C22_UniqueListsSingle ==
  \A f \in UniqueFields : \A k \in ValueKeys(indexCache, f) : Len(indexCache[f][k]) <= 1

\* C23: every id an index list holds under field f and value v is the id of
\* a record of the data cache whose field f has the value v.
C23_IndexInLockstep ==
  \A f \in DOMAIN indexCache : \A k \in DOMAIN indexCache[f] :
    \A i \in DOMAIN indexCache[f][k] :
      LET id == indexCache[f][k][i]
      IN /\ DcHas(dataCache, id)
         /\ f \in DOMAIN DcGet(dataCache, id)
         /\ ToKey(DcGet(dataCache, id)[f]) = k

(***************************************************************************)
(* A caller that passes records and partials carrying the engine-owned     *)
(* fields id and createdAt, with the clock running.                        *)
(***************************************************************************)
\* a createdAt the clock never gives
CallerStamp == Str(TimeText[Len(TimeText)])

\* records for insertOne, one with an id field and one with a createdAt
IdRecords ==
  {MkRec("a", 1), WithId(MkRec("b", 1), "u1"), SetTo(MkRec(Absent, 2), "createdAt", CallerStamp)}

\* partials for updateById and insertOrUpdate, carrying an id, a createdAt,
\* or neither
IdPartials ==
  {SetTo([f \in {"age"} |-> Num(3)], "id", Str("u1")),
   SetTo([f \in {"age"} |-> Num(3)], "id", Str("c1")),
   SetTo([f \in {"age"} |-> Num(2)], "createdAt", CallerStamp),
   [f \in {"name"} |-> Str("a")]}

CanCallIds == calls < MaxIdCalls

NextIds ==
  \/ \E r \in IdRecords, id \in CustomIds \cup {""} : CanCallIds /\ InsertOne(r, id)
  \/ \E b \in Batches : CanCallIds /\ InsertMany(b)
  \/ \E id \in Ids, p \in IdPartials : CanCallIds /\ UpdateById(id, p)
  \/ \E id \in Ids, r \in IdRecords \cup IdPartials : CanCallIds /\ InsertOrUpdate(r, id)
  \/ CanCallIds /\ Initialize
  \/ FgStep
  \/ Tick

SpecIds == Init /\ [][NextIds]_vars

\* C24: every key of the data cache equals the id field of the record
\* stored under it.
C24_KeyIsRecordId ==
  \A i \in DOMAIN dataCache : FieldVal(dataCache[i].r, "id") = Str(dataCache[i].k)

\* updateById or insertOrUpdate has stored, under c1, the partial that
\* carries the id u1
C24_Witness ==
  /\ pc = "returned"
  /\ result.op \in {"updateById", "insertOrUpdate"} /\ result.status = "ok"
  /\ \E s \in RetSet(result.ret) :
       /\ s["age"] = Num(3) /\ s["updatedAt"] # s["createdAt"]
       /\ IdOf(s) = "c1" /\ findById("c1") = s
  /\ ~DcHas(dataCache, "u1")

\* the calls that store records
StoringOps == {"insertOne", "insertMany", "updateById", "insertOrUpdate"}

\* C25: a call of insertOne, insertMany, updateById or insertOrUpdate leaves
\* the id and the createdAt of every record whose id stays a key of the data
\* cache as they were.
C25_IdAndCreatedAtKept ==
  [][(calls' = calls + 1 /\ result'.op \in StoringOps)
       => \A id \in Keys(dataCache) \cap Keys(dataCache') :
            /\ FieldVal(DcGet(dataCache', id), "id") = FieldVal(DcGet(dataCache, id), "id")
            /\ FieldVal(DcGet(dataCache', id), "createdAt")
                 = FieldVal(DcGet(dataCache, id), "createdAt")]_vars

\* C30: an insertOne or updateById call that fails with
\* SchemaValidationError leaves the data cache, the index cache (the order
\* of the ids of every list included) and the dirty flag as they were.
C30_ValidationPrecedesMutation ==
  [][(/\ calls' = calls + 1
      /\ result'.op \in {"insertOne", "updateById"}
      /\ result'.status = "SchemaValidationError")
       => UNCHANGED <<dataCache, indexCache, isIndexDirty>>]_vars

(***************************************************************************)
(* A caller that starts on files an earlier run, or something else, left   *)
(* behind: each file missing, empty, holding one record, or not JSON.      *)
(***************************************************************************)
StoredRecord == Stamped(MkRec("a", 1), "c1", 0)

DataFiles ==
  {NoFile, DataFileOf(<<>>),
   DataFileOf(JSONData(<<[k |-> "c1", r |-> StoredRecord]>>)), Garbled}

IndexFiles ==
  {NoFile, IndexFileOf(EmptyIndex),
   IndexFileOf(JSONIndex(addToIndex(MkRec("a", 1), "c1", EmptyIndex).ic)), Garbled}

InitLoad ==
  /\ dataCache = <<>>
  /\ indexCache = EmptyIndex
  /\ isTxnOpen = FALSE
  /\ isIndexDirty = FALSE
  /\ dataFile \in DataFiles
  /\ indexFile \in IndexFiles
  /\ fg = NoTask
  /\ bg = <<>>
  /\ pc = "ready"
  /\ result = NoResult
  /\ now = 0
  /\ calls = 0
  /\ g = GhostNone

CanCallLoad == calls < MaxLoadCalls

NextLoad ==
  \/ CanCallLoad /\ Initialize
  \/ CanCallLoad /\ AbortTransaction
  \/ \E r \in InsertRecords, id \in CustomIds \cup {""} : CanCallLoad /\ InsertOne(r, id)
  \/ \E id \in Ids, p \in TypedPartials : CanCallLoad /\ UpdateById(id, p)
  \/ FgStep
  \/ \E i \in DOMAIN bg : BgStep(i)

SpecLoad == InitLoad /\ [][NextLoad]_vars

\* the file operation the awaited initialize was waiting for completes
InitStep == pc = "await" /\ fg.kind = "init" /\ FgStep

\* both files exist and the caches hold what they hold
CachesMirrorFiles(dc, ic, df, xf) ==
  /\ df.exists /\ df.json /\ dc = JSONParse(df.data)
  /\ xf.exists /\ xf.json /\ ic = JSONParse(xf.index)

\* C26: initialize never overwrites a file that exists, creates a missing
\* file as an empty object, and when it has returned successfully both
\* caches equal the content of the two files; started where the caches
\* already equal the files (as after an initialize) it changes neither the
\* caches nor the files and succeeds.
C26_InitializeIdempotent ==
  [][InitStep
       => /\ dataFile.exists => dataFile' = dataFile
          /\ indexFile.exists => indexFile' = indexFile
          /\ ~dataFile.exists => dataFile' \in {dataFile, DataFileOf(<<>>)}
          /\ ~indexFile.exists => indexFile' \in {indexFile, IndexFileOf(EmptyIndex)}
          /\ pc' = "returned" => (dataFile'.exists /\ indexFile'.exists)
          /\ (pc' = "returned" /\ result'.status = "ok")
               => CachesMirrorFiles(dataCache', indexCache', dataFile', indexFile')
          /\ CachesMirrorFiles(dataCache, indexCache, dataFile, indexFile)
               => /\ UNCHANGED <<dataCache, indexCache, dataFile, indexFile>>
                  /\ pc' = "returned" => result'.status = "ok"]_vars

\* initialize has returned on files that held a record, after an earlier
\* call: the record file is as it was found and the data cache holds it
C26_Witness ==
  /\ pc = "returned" /\ calls >= 2
  /\ result.op = "initialize" /\ result.status = "ok"
  /\ dataFile = DataFileOf(JSONData(<<[k |-> "c1", r |-> StoredRecord]>>))
  /\ CachesMirrorFiles(dataCache, indexCache, dataFile, indexFile)
  /\ findById("c1") = StoredRecord

\* C27: the gate is Idle at first and either Idle or Open; openTransaction
\* while Open changes nothing; one commitTransaction or abortTransaction
\* makes it Idle; and a mutating call made while Idle that does not throw
\* starts a flush.
C27_GateHasTwoStates ==
  [][/\ isTxnOpen \in BOOLEAN
     /\ calls = 0 => ~isTxnOpen
     /\ (isTxnOpen /\ OpenTransaction)
          => (isTxnOpen' /\ NothingTouched)
     /\ (CommitTransaction \/ AbortTransaction) => ~isTxnOpen'
     /\ (/\ ~isTxnOpen
         /\ calls' = calls + 1
         /\ result'.op \in MutatingOps
         /\ Succeeded)
          => (pc' = "await" /\ fg' = SaveTask(dataCache'))]_vars

\* openTransaction has returned after being called while Open
C27_Witness ==
  /\ pc = "returned" /\ calls >= 2
  /\ result.op = "openTransaction"
  /\ isTxnOpen
  /\ g.phase = "none"

\* C28: when a file operation started by commitTransaction or
\* abortTransaction fails, the promise of that call rejected with the error.
C28_ErrorsSurface ==
  [][\A i \in DOMAIN bg :
       (BgStep(i) /\ TaskNext(bg[i]).err # NoError)
         => /\ result.op \in {"commitTransaction", "abortTransaction"}
            /\ result.status = TaskNext(bg[i]).err]_vars

\* C29: a load that fails, at initialize or on abort, fails with
\* FileLoadError, and it fails when a file it reads is not JSON.
C29_LoadFailsWithFileLoadError ==
  [][/\ (InitStep /\ pc' = "returned")
          => /\ result'.status \in {"ok", "FileLoadError"}
             /\ (~dataFile.json \/ ~indexFile.json) => result'.status = "FileLoadError"
     /\ \A i \in DOMAIN bg :
          (bg[i].kind = "load" /\ BgStep(i))
            => TaskNext(bg[i]).err \in {NoError, "FileLoadError"}]_vars

(***************************************************************************)
(* A caller whose records carry the indexed field city, the schema field   *)
(* count, or a field the schema does not declare.                          *)
(***************************************************************************)
FindRecords ==
  {SetTo(MkRec("a", 1), "city", Str("x")),
   SetTo(MkRec(Absent, 1), "city", Str("x")),
   SetTo(MkRec(Absent, 2), "count", Num(0)),
   SetTo(MkRec(Absent, 2), "note", Str("n"))}

FindPartials ==
  {[f \in {"city"} |-> Str("x")], [f \in {"age"} |-> Num(2)], [f \in {"note"} |-> Str("n")]}

\* what this caller searches with: an indexed field, a field that is not
\* indexed, and both in either order
FindParams ==
  LET city == [key |-> "city", value |-> Str("x")]
      age1 == [key |-> "age", value |-> Num(1)]
      age2 == [key |-> "age", value |-> Num(2)]
  IN {<<city>>, <<age1>>, <<age2>>, <<city, age1>>, <<age1, city>>}

CanCallFind == calls < MaxFindCalls

NextFind ==
  \/ \E r \in FindRecords, id \in CustomIds \cup {""} : CanCallFind /\ InsertOne(r, id)
  \/ \E r \in FindRecords : CanCallFind /\ InsertMany(<<r>>)
  \/ \E id \in Ids, p \in FindPartials : CanCallFind /\ UpdateById(id, p)
  \/ FgStep

SpecFind == Init /\ [][NextFind]_vars

\* where the key id stands in the iteration order of the data cache
PlaceOf(dc, id) == CHOOSE i \in DOMAIN dc : dc[i].k = id

\* the records of ret come in the iteration order of dc
InCacheOrder(ret, dc) ==
  \A i, j \in DOMAIN ret :
    (i < j /\ DcHas(dc, IdOf(ret[i])) /\ DcHas(dc, IdOf(ret[j])))
      => PlaceOf(dc, IdOf(ret[i])) < PlaceOf(dc, IdOf(ret[j]))

\* C31: find returns its records in the iteration order of the data cache,
\* whichever predicate comes first.
C31_FindInCacheOrder ==
  \A ps \in FindParams : InCacheOrder(find(ps, dataCache, indexCache), dataCache)

\* the field the schema does not declare
Undeclared == {f \in {KeyOrder[i] : i \in DOMAIN KeyOrder} :
                 f \notin DOMAIN Schema /\ f \notin IgnoredDBRecordKeys}

CarriesUndeclared(r) == DOMAIN r \cap Undeclared # {}

\* C36: insertOne, insertMany and updateById with a record that carries a
\* field the schema does not declare (and is valid otherwise) do not fail,
\* store the field with the record, and leave the field out of the index
\* cache.
C36_OpenRecordsAccepted ==
  [][/\ \A r \in FindRecords, id \in CustomIds \cup {""} :
          (/\ CarriesUndeclared(r)
           /\ ~IsDuplicateId(id, dataCache)
           /\ InsertOne(r, id) \/ (id = "" /\ InsertMany(<<r>>)))
            => /\ Succeeded
               /\ \E s \in RetSet(result'.ret) :
                    /\ DcHas(dataCache', IdOf(s))
                    /\ \A f \in DOMAIN r : FieldVal(DcGet(dataCache', IdOf(s)), f) = r[f]
               /\ DOMAIN indexCache' \cap Undeclared = {}
     /\ \A id \in Ids, p \in FindPartials :
          (CarriesUndeclared(p) /\ DcHas(dataCache, id) /\ UpdateById(id, p))
            => /\ Succeeded
               /\ \A f \in DOMAIN p : FieldVal(DcGet(dataCache', id), f) = p[f]
               /\ DOMAIN indexCache' \cap Undeclared = {}]_vars

\* C39: every record find returns is field for field the record stored in
\* the data cache under its id.
C39_FindReturnsStoredRecords ==
  \A ps \in FindParams : \A r \in RetSet(find(ps, dataCache, indexCache)) :
    DcHas(dataCache, IdOf(r)) /\ DcGet(dataCache, IdOf(r)) = r

\* the candidates find holds after the first k predicates
CandidatesAfter(searchPArr, k, dc, ic) == FindLoop(SubSeq(searchPArr, 1, k), 1, dc, ic, <<>>)

\* find evaluates predicate k: the loop did not break after an earlier one
Evaluates(searchPArr, k, dc, ic) ==
  \A j \in 1..(k - 1) : ~TempSizeIsZero(CandidatesAfter(searchPArr, j, dc, ic))

\* C32: when no candidate is left after a predicate, find returns the empty
\* result and evaluates none of the predicates after it.
C32_FindShortCircuits ==
  \A ps \in SearchParams : \A j \in DOMAIN ps :
    CandidatesAfter(ps, j, dataCache, indexCache) = <<>>
      => /\ find(ps, dataCache, indexCache) = <<>>
         /\ \A k \in DOMAIN ps : k > j => ~Evaluates(ps, k, dataCache, indexCache)

\* C33: a flush that starts when the index file already holds the index
\* cache writes the record file and does not write the index file.
C33_IndexWrittenOnlyWhenChanged ==
  [][(/\ pc = "await" /\ fg.kind = "save" /\ fg.phase = "wdata"
      /\ indexFile = IndexFileOf(JSONIndex(indexCache))
      /\ FgStep)
       => /\ dataFile' = DataFileOf(fg.dbuf)
          /\ fg'.phase # "windex"
          /\ pc' = "returned"]_vars

\* a batch item carries an id that is a key of the data cache
HasStoredId(x, dc) == Truthy(FieldVal(x, "id")) /\ DcHas(dc, ToKey(x["id"]))

\* C35: insertMany with a batch item whose id is already a key of the data
\* cache fails with DuplicateIdError and does not replace the record stored
\* under that id.
C35_InsertManyDuplicateId ==
  [][\A b \in Batches :
       (InsertMany(b) /\ \E i \in DOMAIN b : HasStoredId(b[i], dataCache))
         => /\ result'.status = "DuplicateIdError"
            /\ \A i \in DOMAIN b :
                 HasStoredId(b[i], dataCache)
                   => /\ DcHas(dataCache', ToKey(b[i]["id"]))
                      /\ DcGet(dataCache', ToKey(b[i]["id"]))
                           = DcGet(dataCache, ToKey(b[i]["id"]))]_vars

\* C37: every field's map of the index cache holds at most one value key.
C37_OneValueKeyPerField ==
  \A f \in DOMAIN indexCache : Cardinality(DOMAIN indexCache[f]) <= 1

\* two records with different names are stored and the index holds the name
\* of one of them
C37_Witness ==
  /\ pc = "returned" /\ result.status = "ok"
  /\ \E r, s \in Stored :
       /\ "name" \in DOMAIN r /\ "name" \in DOMAIN s /\ r["name"] # s["name"]
       /\ ValueKeys(indexCache, "name") = {ToKey(s["name"])}

(***************************************************************************)
(* A caller that does not await every insertOne: the call runs up to its   *)
(* await of saveFile, and its flush goes on while the caller makes the     *)
(* next call.                                                              *)
(***************************************************************************)
InsertOneUnawaited(record, id) ==
  LET o == insertOne(record, id, St, now)
      flush == o.status = "ok" /\ SaveFileWrites(isTxnOpen)
  IN /\ CanCall
     /\ WithinBounds(o)
     /\ Len(bg) < MaxBackground
     /\ dataCache' = o.dc
     /\ indexCache' = o.ic
     /\ isIndexDirty' = o.dirty
     /\ bg' = IF flush THEN Append(bg, SaveTask(o.dc)) ELSE bg
     /\ pc' = "returned"
     /\ result' = [op |-> "insertOne", status |-> IF flush THEN "pending" ELSE o.status,
                   ret |-> o.ret, expect |-> 0]
     /\ g' = GhostMutate("insertOne", o, TRUE)
     /\ Called
     /\ UNCHANGED <<isTxnOpen, dataFile, indexFile, fg, now>>

CanCallOverlap == calls < MaxOverlapCalls

NextOverlap ==
  \/ \E r \in InsertRecords, id \in CustomIds \cup {""} :
       CanCallOverlap /\ InsertOneUnawaited(r, id)
  \/ \E r \in InsertRecords, id \in CustomIds \cup {""} : CanCallOverlap /\ InsertOne(r, id)
  \/ FgStep
  \/ \E i \in DOMAIN bg : BgStep(i)

SpecOverlap == Init /\ [][NextOverlap]_vars

\* every file write that was started has completed
WritesDone == fg = NoTask /\ bg = <<>> /\ pc # "await"

\* C34: when every started file write has completed, the record file equals
\* the data cache and the index file equals the index cache.
C34_FlushesDoNotOverlap ==
  (WritesDone /\ dataFile.exists)
    => /\ dataFile = DataFileOf(JSONData(dataCache))
       /\ indexFile = IndexFileOf(JSONIndex(indexCache))

(***************************************************************************)
(* A caller with transactions, under fair scheduling of the file           *)
(* operations nobody awaits.                                               *)
(***************************************************************************)
CanCallLive == calls < MaxLiveCalls

NextLive ==
  \/ \E r \in InsertRecords, id \in CustomIds \cup {""} : CanCallLive /\ InsertOne(r, id)
  \/ \E id \in Ids : CanCallLive /\ DeleteById(id)
  \/ CanCallLive /\ OpenTransaction
  \/ CanCallLive /\ CommitWithin(MaxLiveBackground)
  \/ CanCallLive /\ AbortWithin(MaxLiveBackground)
  \/ FgStep
  \/ \E i \in DOMAIN bg : BgStep(i)

SpecLive ==
  Init /\ [][NextLive]_vars /\ WF_vars(\E i \in DOMAIN bg : BgStep(i))

\* commitTransaction was the n-th call and has just returned
Committed(n) == pc = "returned" /\ result.op = "commitTransaction" /\ calls = n

\* nothing is pending, the record file holds the data cache and, when the
\* index is dirty, the index file holds the index cache
Flushed ==
  /\ bg = <<>>
  /\ dataFile = DataFileOf(JSONData(dataCache))
  /\ isIndexDirty => indexFile = IndexFileOf(JSONIndex(indexCache))

\* C38: after commitTransaction, unless a further call is made, the files
\* eventually hold the caches as they were at commit.
C38_CommitEventuallyFlushed ==
  \A n \in 0..MaxLiveCalls : Committed(n) ~> (calls > n \/ Flushed)
====
